---- MODULE Spec2Model ----
(***************************************************************************)
(* Model of scripts/github-org-labels-to-csv.js: one run of main(), from   *)
(* the argument check to the end of the process.  Every await of the       *)
(* script is a point where the run is suspended, so each action below is   *)
(* the synchronous stretch of code between two awaits.                     *)
(***************************************************************************)
EXTENDS Naturals, Sequences, FiniteSets, TLC

VARIABLES
    orgName,    \* process.argv[2]
    pc,         \* where the run is suspended
    inflight,   \* outbound requests issued and not yet settled
    listCalls,  \* calls of getAllReposForOrg
    repos,      \* names of the repositories of the listing, in listing order
    idx,        \* iterations of the for-of loop that have completed
    fetched,    \* repository names getRepoLabels was called with, in call order
    resp,       \* what each of those calls settled with, in call order
    allLabels,  \* the in-memory aggregate
    pauses,     \* one-second timers that have fired
    stdout,     \* console.log lines
    stderr,     \* console.error lines
    error,      \* the error main() rejected with
    file,       \* content of labels.csv
    writes,     \* calls of fs.writeFileSync
    exitCode    \* exit code of the process once it has ended

vars == <<orgName, pc, inflight, listCalls, repos, idx, fetched, resp,
          allLabels, pauses, stdout, stderr, error, file, writes, exitCode>>

----------------------------------------------------------------------------
(* Bounds of the model. *)

MaxRepos == 2
MaxLabels == 2

----------------------------------------------------------------------------
(* Values. *)

Undefined == "<undefined>"
NoError == "<none>"
Running == 255 + 1   \* no exit code yet: outside the range of exit codes
OldFile == "Repo,Label,Description,Color\n\"old\",\"stale\",\"\",\"#000000\""

Falsy(v) == v \in {Undefined, ""}

OrgArgs == {Undefined, "", "acme"}

RepoPool == <<"web", "core", "api", "docs">>

RepoLists == {SubSeq(RepoPool, 1, n) : n \in 0..MaxRepos}

NullEntry == [null |-> TRUE]

Labels ==
    { [name |-> "bug", description |-> "", color |-> "d73a4a"],
      [name |-> "ui", description |-> Undefined, color |-> "ff00aa"],
      [name |-> "docs", description |-> "Docs", color |-> "0075ca"] }

Entries == Labels \cup {NullEntry}

NoDup(s) == \A i, j \in 1..Len(s) : s[i] = s[j] => i = j

SeqsUpTo(S, n) == UNION {[1..k -> S] : k \in 0..n}

LabelLists == {s \in SeqsUpTo(Entries, MaxLabels) : NoDup(s)}

StatusTexts == {"Not Found"}
NetworkErrors == {"request failed, reason: ECONNREFUSED"}

\* What the request of getAllReposForOrg can settle with: a list of repositories,
\* a JSON value that is no list, a non-success status, a network error.
ListOutcomes ==
    {[kind |-> "ok", body |-> r] : r \in RepoLists}
        \cup {[kind |-> "object"]}
        \cup {[kind |-> "status", statusText |-> t] : t \in StatusTexts}
        \cup {[kind |-> "reject", message |-> m] : m \in NetworkErrors}

\* What the request of getRepoLabels can settle with: a list whose entries are
\* labels or null, a JSON value that is no list, a non-success status, a network
\* error.
LabelOutcomes ==
    {[kind |-> "ok", body |-> l] : l \in LabelLists}
        \cup {[kind |-> "object"]}
        \cup {[kind |-> "status", statusText |-> t] : t \in StatusTexts}
        \cup {[kind |-> "reject", message |-> m] : m \in NetworkErrors}

\* What fs.writeFileSync can do: write, fail before opening, fail after truncating.
WriteOutcomes == {"ok", "EACCES", "ENOSPC"}

----------------------------------------------------------------------------
(* Pure parts of the script. *)

ListErrorMessage(org, statusText) ==
    "Failed to fetch repositories for organization " \o org \o ": " \o statusText

LabelErrorMessage(name, statusText) ==
    "Failed to fetch labels for " \o name \o ": " \o statusText

\* The value getRepoLabels throws, or NoError when it returns.
LabelCallError(name, o) ==
    CASE o.kind = "status" -> LabelErrorMessage(name, o.statusText)
      [] o.kind = "reject" -> o.message
      [] OTHER -> NoError

\* DescriptionOrEmpty without the || '' of the row construction.
DescriptionRaw(label) == label.description

DescriptionOrEmpty(label) ==
    IF Falsy(label.description) THEN "" ELSE label.description

Row(repoName, label) ==
    <<repoName, label.name, DescriptionOrEmpty(label), label.color>>

\* labels.forEach(label => allLabels.push([...])): rows are pushed one by one and
\* reading a property of a null entry throws, leaving the rows pushed so far.
RECURSIVE ForEachPush(_, _, _)
ForEachPush(acc, repoName, labels) ==
    IF labels = <<>> THEN [rows |-> acc, threw |-> NoError]
    ELSE IF Head(labels) = NullEntry
         THEN [rows |-> acc,
               threw |-> "Cannot read properties of null (reading 'name')"]
         ELSE ForEachPush(Append(acc, Row(repoName, Head(labels))),
                          repoName, Tail(labels))

\* The body of the try block once getRepoLabels has returned.
PushLabels(acc, repoName, o) ==
    IF o.kind = "object"
    THEN [rows |-> acc, threw |-> "labels.forEach is not a function"]
    ELSE ForEachPush(acc, repoName, o.body)

RenderRow(row) ==
    "\"" \o row[1] \o "\",\"" \o row[2] \o "\",\"" \o row[3] \o "\",\"#" \o row[4] \o "\""

RECURSIVE Join(_, _)
Join(lines, sep) ==
    IF lines = <<>> THEN ""
    ELSE IF Len(lines) = 1 THEN lines[1]
         ELSE lines[1] \o sep \o Join(Tail(lines), sep)

CsvContent(rows) ==
    "Repo,Label,Description,Color\n"
        \o Join([i \in 1..Len(rows) |-> RenderRow(rows[i])], "\n")

----------------------------------------------------------------------------
(* The run. *)

Init ==
    /\ orgName \in OrgArgs
    /\ pc = "main"
    /\ inflight = 0
    /\ listCalls = 0
    /\ repos = <<>>
    /\ idx = 0
    /\ fetched = <<>>
    /\ resp = <<>>
    /\ allLabels = <<>>
    /\ pauses = 0
    /\ stdout = <<>>
    /\ stderr = <<>>
    /\ error = NoError
    /\ file = OldFile
    /\ writes = 0
    /\ exitCode = Running

\* CheckArg without the process.exit(1) of the missing-argument branch.
CheckArgNoExit ==
    /\ pc = "main"
    /\ stderr' = IF Falsy(orgName)
                 THEN Append(stderr,
                        "Please provide a GitHub organization name as an argument.")
                 ELSE stderr
    /\ listCalls' = listCalls + 1
    /\ inflight' = inflight + 1
    /\ pc' = "listing"
    /\ UNCHANGED <<orgName, repos, idx, fetched, resp, allLabels, pauses,
                   stdout, error, file, writes, exitCode>>

\* main(), up to the await of getAllReposForOrg.
CheckArg ==
    /\ pc = "main"
    /\ IF Falsy(orgName)
       THEN /\ stderr' = Append(stderr,
                   "Please provide a GitHub organization name as an argument.")
            /\ exitCode' = 1
            /\ pc' = "exited"
            /\ UNCHANGED <<inflight, listCalls>>
       ELSE /\ listCalls' = listCalls + 1
            /\ inflight' = inflight + 1
            /\ pc' = "listing"
            /\ UNCHANGED <<stderr, exitCode>>
    /\ UNCHANGED <<orgName, repos, idx, fetched, resp, allLabels, pauses,
                   stdout, error, file, writes>>

\* The loop head: the next repository's progress line and label request, or the
\* end of the loop.
EnterLoop(i, rs, outstanding) ==
    IF i < Len(rs)
    THEN /\ stdout' = Append(stdout, "Fetching labels for " \o rs[i + 1] \o "...")
         /\ fetched' = Append(fetched, rs[i + 1])
         /\ inflight' = outstanding + 1
         /\ pc' = "fetching"
    ELSE /\ stdout' = stdout
         /\ fetched' = fetched
         /\ inflight' = outstanding
         /\ pc' = "write"

\* The listing request settles: getAllReposForOrg returns or throws, and main()
\* runs on to its next await.
ListSettles ==
    /\ pc = "listing"
    /\ \E o \in ListOutcomes :
         IF o.kind = "ok"
         THEN /\ repos' = o.body
              /\ EnterLoop(0, o.body, inflight - 1)
              /\ UNCHANGED error
         ELSE /\ error' = CASE o.kind = "status" ->
                                   ListErrorMessage(orgName, o.statusText)
                             [] o.kind = "object" -> "repos is not iterable"
                             [] OTHER -> o.message
              /\ inflight' = inflight - 1
              /\ pc' = "rejected"
              /\ UNCHANGED <<repos, stdout, fetched>>
    /\ UNCHANGED <<orgName, listCalls, idx, resp, allLabels, pauses, stderr,
                   file, writes, exitCode>>

\* The try/catch of one repository, given what its label request settled with.
TryCatch(o) ==
    LET name == repos[idx + 1]
        thrown == LabelCallError(name, o)
        pushed == IF thrown = NoError
                  THEN PushLabels(allLabels, name, o)
                  ELSE [rows |-> allLabels, threw |-> thrown]
    IN /\ resp' = Append(resp, o)
       /\ allLabels' = pushed.rows
       /\ stderr' = IF pushed.threw = NoError THEN stderr
                    ELSE Append(stderr, "Error fetching labels for " \o name
                                            \o ": " \o pushed.threw)

\* LabelSettles with an error of the label call left uncaught.
LabelSettlesFatal ==
    /\ pc = "fetching"
    /\ \E o \in LabelOutcomes :
         IF LabelCallError(repos[idx + 1], o) = NoError
         THEN /\ TryCatch(o)
              /\ pc' = "pause"
              /\ UNCHANGED error
         ELSE /\ resp' = Append(resp, o)
              /\ error' = LabelCallError(repos[idx + 1], o)
              /\ pc' = "rejected"
              /\ UNCHANGED <<allLabels, stderr>>
    /\ inflight' = inflight - 1
    /\ UNCHANGED <<orgName, listCalls, repos, idx, fetched, pauses, stdout,
                   file, writes, exitCode>>

\* LabelSettles with the timer started but not awaited.
LabelSettlesNoAwait ==
    /\ pc = "fetching"
    /\ \E o \in LabelOutcomes : TryCatch(o)
    /\ idx' = idx + 1
    /\ EnterLoop(idx + 1, repos, inflight - 1)
    /\ UNCHANGED <<orgName, listCalls, repos, pauses, error, file, writes,
                   exitCode>>

\* LabelSettles with the pause left out after the last repository.
LabelSettlesSkipLastPause ==
    /\ pc = "fetching"
    /\ \E o \in LabelOutcomes : TryCatch(o)
    /\ inflight' = inflight - 1
    /\ IF idx + 1 = Len(repos)
       THEN /\ idx' = idx + 1
            /\ pc' = "write"
       ELSE /\ idx' = idx
            /\ pc' = "pause"
    /\ UNCHANGED <<orgName, listCalls, repos, fetched, pauses, stdout,
                   error, file, writes, exitCode>>

\* The label request settles: the try block finishes or the catch block logs,
\* and the one-second timer is started.
LabelSettles ==
    /\ pc = "fetching"
    /\ \E o \in LabelOutcomes : TryCatch(o)
    /\ inflight' = inflight - 1
    /\ pc' = "pause"
    /\ UNCHANGED <<orgName, listCalls, repos, idx, fetched, pauses, stdout,
                   error, file, writes, exitCode>>

\* PauseEnds with the file written in every iteration of the loop.
PauseEndsWriting ==
    /\ pc = "pause"
    /\ pauses' = pauses + 1
    /\ idx' = idx + 1
    /\ file' = CsvContent(allLabels)
    /\ writes' = writes + 1
    /\ EnterLoop(idx + 1, repos, inflight)
    /\ UNCHANGED <<orgName, listCalls, repos, resp, allLabels, stderr, error,
                   exitCode>>

\* The timer fires and the loop goes on.
PauseEnds ==
    /\ pc = "pause"
    /\ pauses' = pauses + 1
    /\ idx' = idx + 1
    /\ EnterLoop(idx + 1, repos, inflight)
    /\ UNCHANGED <<orgName, listCalls, repos, resp, allLabels, stderr, error,
                   file, writes, exitCode>>

\* fs.writeFileSync and the completion notice.
WriteFile ==
    /\ pc = "write"
    /\ writes' = writes + 1
    /\ \E w \in WriteOutcomes :
         IF w = "ok"
         THEN /\ file' = CsvContent(allLabels)
              /\ stdout' = Append(stdout, "CSV file created: labels.csv")
              /\ pc' = "resolved"
              /\ UNCHANGED error
         ELSE /\ file' = IF w = "ENOSPC" THEN "" ELSE file
              /\ error' = w \o ": labels.csv"
              /\ pc' = "rejected"
              /\ UNCHANGED stdout
    /\ UNCHANGED <<orgName, inflight, listCalls, repos, idx, fetched, resp,
                   allLabels, pauses, stderr, exitCode>>

\* main().catch(...)
CatchHandler ==
    /\ pc = "rejected"
    /\ stderr' = Append(stderr, "Failed to execute script: " \o error)
    /\ pc' = "handled"
    /\ UNCHANGED <<orgName, inflight, listCalls, repos, idx, fetched, resp,
                   allLabels, pauses, stdout, error, file, writes, exitCode>>

\* Nothing is left to run: the process ends with the default exit code.
ProcessEnds ==
    /\ pc \in {"resolved", "handled"}
    /\ exitCode' = 0
    /\ pc' = "exited"
    /\ UNCHANGED <<orgName, inflight, listCalls, repos, idx, fetched, resp,
                   allLabels, pauses, stdout, stderr, error, file, writes>>

Next ==
    \/ CheckArg
    \/ ListSettles
    \/ LabelSettles
    \/ PauseEnds
    \/ WriteFile
    \/ CatchHandler
    \/ ProcessEnds

Spec == Init /\ [][Next]_vars

----------------------------------------------------------------------------
(* Vocabulary of the properties, stated from the responses the run received. *)

Range(s) == {s[i] : i \in 1..Len(s)}

UsageMessage == "Please provide a GitHub organization name as an argument."
CompletionNotice == "CSV file created: labels.csv"

ArgMissing == Falsy(orgName)
Exited == pc = "exited"
\* getAllReposForOrg threw on a non-success status.
ListFailed ==
    writes = 0 /\ error \in {ListErrorMessage(orgName, t) : t \in StatusTexts}
WriteFailed == error # NoError /\ writes > 0
Completed == CompletionNotice \in Range(stdout)
FatalDiagnostic == "Failed to execute script: " \o error

\* The label call of a repository succeeded: it returned a list of labels.
Succeeded(o) == o.kind = "ok" /\ \A i \in 1..Len(o.body) : o.body[i] \in Labels

\* The per-repository diagnostics that can be emitted for a repository.
DiagnosticsFor(name) ==
    {"Error fetching labels for " \o name \o ": " \o m :
        m \in {LabelErrorMessage(name, t) : t \in StatusTexts}
                \cup NetworkErrors
                \cup {"Cannot read properties of null (reading 'name')",
                      "labels.forEach is not a function"}}

DiagnosticEmitted(name) == DiagnosticsFor(name) \cap Range(stderr) # {}

ExportRow(name, l) ==
    <<name, l.name,
      IF l.description \in {Undefined, ""} THEN "" ELSE l.description,
      l.color>>

LabelRows(name, body) == [i \in 1..Len(body) |-> ExportRow(name, body[i])]

\* Rows of the first k repositories, those whose label call succeeded only.
RECURSIVE SucceededRows(_)
SucceededRows(k) ==
    IF k = 0 THEN <<>>
    ELSE SucceededRows(k - 1)
            \o (IF Succeeded(resp[k]) THEN LabelRows(fetched[k], resp[k].body)
                ELSE <<>>)

\* The labels of a returned list that precede its first null entry.
RECURSIVE Reached(_)
Reached(body) ==
    IF body = <<>> \/ Head(body) = NullEntry THEN <<>>
    ELSE <<Head(body)>> \o Reached(Tail(body))

\* Rows of the first k repositories, one per label the loop got to.
RECURSIVE ReachedRows(_)
ReachedRows(k) ==
    IF k = 0 THEN <<>>
    ELSE ReachedRows(k - 1)
            \o (IF resp[k].kind = "ok"
                THEN LabelRows(fetched[k], Reached(resp[k].body))
                ELSE <<>>)

Quote(s) == "\"" \o s \o "\""

Line(row) ==
    Quote(row[1]) \o "," \o Quote(row[2]) \o "," \o Quote(row[3])
        \o "," \o Quote("#" \o row[4])

RECURSIVE DataLines(_)
DataLines(rows) ==
    IF rows = <<>> THEN ""
    ELSE IF Len(rows) = 1 THEN Line(rows[1])
         ELSE Line(rows[1]) \o "\n" \o DataLines(Tail(rows))

FileOf(rows) == "Repo,Label,Description,Color" \o "\n" \o DataLines(rows)

RECURSIVE IsSubseq(_, _)
IsSubseq(s, t) ==
    IF s = <<>> THEN TRUE
    ELSE IF t = <<>> THEN FALSE
         ELSE IF Head(s) = Head(t) THEN IsSubseq(Tail(s), Tail(t))
              ELSE IsSubseq(s, Tail(t))

----------------------------------------------------------------------------
(* C1 *)

\* C1: when the repository listing fails, no label call is made, labels.csv is
\* left as it was, the diagnostic with the underlying error message is emitted,
\* and the process ends with a non-zero exit code.
C1_ListFailureExitsNonZero ==
    ListFailed =>
        /\ fetched = <<>>
        /\ file = OldFile
        /\ writes = 0
        /\ Exited => /\ FatalDiagnostic \in Range(stderr)
                     /\ exitCode # 0

----------------------------------------------------------------------------
(* C2 *)

\* C2: with the organization argument missing or empty, the run makes no
\* repository-listing request, no label request and no file write, and ends
\* with exit code 1 and the usage diagnostic on standard error.
C2_MissingArgumentAborts ==
    ArgMissing =>
        /\ listCalls = 0
        /\ inflight = 0
        /\ fetched = <<>>
        /\ writes = 0
        /\ file = OldFile
        /\ pc \in {"main", "exited"}
        /\ Exited => exitCode = 1 /\ stderr = <<UsageMessage>>

C2_Witness == ArgMissing /\ Exited /\ orgName = ""

----------------------------------------------------------------------------
(* C3 *)

\* C3: a failing label call is not fatal: only the listing or the final write
\* can reject the run; every repository of the listing is processed before the
\* write; the written file holds, in order, the rows of every repository whose
\* label call succeeded; and the process then ends with exit code 0.
C3_LabelFailureNonFatal ==
    /\ error # NoError => resp = <<>> \/ writes > 0
    /\ pc = "write" \/ writes > 0 =>
          fetched = repos /\ Len(resp) = Len(repos)
    /\ Completed =>
          /\ file = FileOf(allLabels)
          /\ IsSubseq(SucceededRows(Len(resp)), allLabels)
          /\ Exited => exitCode = 0

C3_Witness ==
    /\ Exited
    /\ Completed
    /\ Len(repos) = 2
    /\ resp[1].kind = "status"
    /\ Succeeded(resp[2])
    /\ Len(resp[2].body) = 2

----------------------------------------------------------------------------
(* C4 *)

\* C4: in a successful run the data rows of the file are exactly the rows of
\* the repositories whose label call succeeded, one per label, in listing
\* order and in the order the labels were returned.
C4_RowsAreSucceededLabels ==
    Completed => file = FileOf(SucceededRows(Len(resp)))

----------------------------------------------------------------------------
(* C5 *)

\* C5: when the final write fails, the run ends with the diagnostic and exit
\* code 1, and the completion notice is never emitted.
C5_WriteFailureExitsOne ==
    WriteFailed =>
        /\ ~Completed
        /\ Exited => /\ FatalDiagnostic \in Range(stderr)
                     /\ exitCode = 1

----------------------------------------------------------------------------
(* C6 *)

\* C6: once the argument check has passed the Repository Lister has been called
\* exactly once (and never more than once); label calls are made in listing
\* order, one per repository; a label call is in flight only when every earlier
\* call has settled and every earlier pause has ended; and at most one request
\* is in flight at any time.
C6_StrictlySequential ==
    /\ listCalls <= 1
    /\ ~ArgMissing /\ pc # "main" => listCalls = 1
    /\ inflight <= 1
    /\ inflight = (IF pc \in {"listing", "fetching"} THEN 1 ELSE 0)
    /\ Len(fetched) <= Len(repos)
    /\ fetched = SubSeq(repos, 1, Len(fetched))
    /\ pc = "fetching" =>
          Len(resp) = Len(fetched) - 1 /\ pauses = Len(fetched) - 1
    /\ pc # "fetching" => Len(resp) = Len(fetched)
    /\ pc = "write" \/ writes > 0 => fetched = repos

C6_Witness ==
    pc = "fetching" /\ Len(fetched) = 2 /\ resp[1].kind = "status" /\ pauses = 1

----------------------------------------------------------------------------
(* C7 *)

\* The three states of the Driver, and the end of the run.
Phase(p) ==
    CASE p = "main" -> 1
      [] p \in {"listing", "fetching", "pause"} -> 2
      [] p \in {"write", "resolved"} -> 3
      [] OTHER -> 4

\* C7: the Driver never moves back to an earlier state; from the writing state
\* on there is no label call and no append to the aggregate; and the file is
\* written at most once, only after every repository has been processed.
C7_LinearPhases ==
    [][ /\ Phase(pc') >= Phase(pc)
        /\ Phase(pc) >= 3 => allLabels' = allLabels /\ fetched' = fetched
                                /\ resp' = resp
        /\ writes' <= 1
        /\ writes' # writes \/ file' # file =>
              /\ Phase(pc) = 3
              /\ idx = Len(repos)
              /\ Len(resp) = Len(repos) ]_vars

C7_Witness == pc = "resolved" /\ Len(repos) = 2 /\ writes = 1 /\ file # OldFile

----------------------------------------------------------------------------
(* C8 *)

\* C8: the file is the header Repo,Label,Description,Color followed by one line
\* per row, each row being (repository name, label name, description, color)
\* of a label the loop got to, every field in double quotes and the fields
\* separated by commas; an absent or empty description gives "" and the color
\* is the label's color token with one # in front.
C8_RowFormat ==
    /\ allLabels = ReachedRows(Len(resp))
    /\ Completed => file = FileOf(ReachedRows(Len(resp)))

C8_Witness ==
    /\ Completed
    /\ Len(resp) = 1
    /\ resp[1].kind = "ok"
    /\ resp[1].body = << [name |-> "ui", description |-> Undefined, color |-> "ff00aa"],
                         [name |-> "bug", description |-> "", color |-> "d73a4a"] >>
    /\ file = "Repo,Label,Description,Color\n"
                \o "\"web\",\"ui\",\"\",\"#ff00aa\"\n"
                \o "\"web\",\"bug\",\"\",\"#d73a4a\""

----------------------------------------------------------------------------
(* C9 *)

\* C9: over N >= 1 repositories exactly N - 1 pauses happen, none of them
\* between the last repository and the file write.
C9_NoPauseAfterLast ==
    pc = "write" /\ Len(repos) >= 1 => pauses = Len(repos) - 1

\* C9, amended: a pause follows every repository, whether its label call
\* succeeded or failed, the last one included: a pause starts each time a label
\* call settles, as many pauses have ended as repositories have been processed,
\* and when the file is about to be written N pauses have ended for the N
\* repositories of the listing.
C9_PauseAfterEveryRepository ==
    /\ pauses = idx
    /\ pc = "pause" <=> Len(resp) = idx + 1
    /\ pc = "fetching" => pauses = Len(fetched) - 1
    /\ pc = "write" \/ writes > 0 => pauses = Len(repos)

C9_Witness ==
    /\ pc = "write"
    /\ Len(repos) = 2
    /\ pauses = 2
    /\ resp[1].kind = "status"
    /\ Succeeded(resp[2])

----------------------------------------------------------------------------
(* C10 *)

\* C10: once the per-repository diagnostic has been emitted for a repository,
\* the aggregate holds no row of that repository.
C10_FailedRepositoryHasNoRows ==
    \A i \in 1..Len(resp) :
        DiagnosticEmitted(fetched[i]) =>
            \A k \in 1..Len(allLabels) : allLabels[k][1] # fetched[i]

====
